---- MODULE Spec2Model ----
(***************************************************************************)
(* A model of go-ipset (src/ipset.go): a wrapper that drives the ipset     *)
(* command line tool.  The wrapper's code is the argument lists it builds, *)
(* the error values it returns, the XML decoding of listings and the       *)
(* five-step Refresh protocol.  The kernel's set table and the effect of   *)
(* each ipset command on it are the environment the wrapper runs against.  *)
(***************************************************************************)
EXTENDS Integers, Sequences, FiniteSets, TLC

\* Longest entry list handed to one Refresh call.
MaxEntries == 2
\* Largest number the listing's decimal fields are parsed over.
MaxNum == 9
\* Longest listing document drawn as the output of a misbehaving binary.
MaxItems == 2

\* The callers that may run Refresh concurrently.
Procs == {"p1", "p2"}

\* Member entries, in the order a listing prints them.
ElemSeq == <<"10.0.0.1", "10.0.0.2", "10.0.0.3">>

Range(s) == {s[i] : i \in 1..Len(s)}

Elems == Range(ElemSeq)

\* The set Refresh is called on, and a bystander set.
Target == "blocklist"

Other == "other"

\* A name no set has at first.
Spare == "spare"

\* The nil error, and the error errors.New(text) builds.
Nil == <<>>

ErrorsNew(text) == <<text>>

ErrorText(err) == err[1]

\* A nil *Set, and a pointer to a decoded record.
NilPtr == <<>>

PtrTo(s) == <<s>>

RECURSIVE SeqsUpTo(_, _)
SeqsUpTo(S, n) ==
    IF n = 0 THEN {<<>>}
    ELSE LET shorter == SeqsUpTo(S, n - 1)
         IN  shorter \cup {Append(s, x) : s \in {t \in shorter : Len(t) = n - 1}, x \in S}

(***************************************************************************)
(* The ipset tool and the kernel's set table.  k maps the name of every    *)
(* existing set to its record.                                             *)
(***************************************************************************)

FormatInt(n) == ToString(n)

\* The decimal text s as a number; -1 when s is no number in range.
ParseInt(s) ==
    IF \E n \in 0..MaxNum : ToString(n) = s
    THEN CHOOSE n \in 0..MaxNum : ToString(n) = s
    ELSE -1

HasFlag(args, flag) == \E i \in 1..Len(args) : args[i] = flag

WithoutFlags(args) ==
    SelectSeq(args, LAMBDA a : a \notin {"-exist", "-t", "-n", "-o", "xml"})

NewSet(typ) ==
    [type |-> typ, revision |-> "4", family |-> "inet", hashsize |-> 4,
     maxelem |-> 8, references |-> 0, members |-> {}]

\* The key/value options of "create", applied left to right to a new set;
\* <<>> when the options are not well-formed pairs of known keys.
RECURSIVE ApplyOpts(_, _)
ApplyOpts(rec, opts) ==
    IF opts = <<>> THEN <<rec>>
    ELSE IF Len(opts) < 2 THEN <<>>
    ELSE IF opts[1] = "family"
    THEN ApplyOpts([rec EXCEPT !.family = opts[2]], SubSeq(opts, 3, Len(opts)))
    ELSE IF opts[1] = "hashsize" /\ ParseInt(opts[2]) >= 0
    THEN ApplyOpts([rec EXCEPT !.hashsize = ParseInt(opts[2])], SubSeq(opts, 3, Len(opts)))
    ELSE IF opts[1] = "maxelem" /\ ParseInt(opts[2]) >= 0
    THEN ApplyOpts([rec EXCEPT !.maxelem = ParseInt(opts[2])], SubSeq(opts, 3, Len(opts)))
    ELSE <<>>

Ok(k) == [k |-> k, ok |-> TRUE, stderr |-> "", stdout |-> [root |-> "", items |-> <<>>]]

Fail(k, text) == [k |-> k, ok |-> FALSE, stderr |-> text, stdout |-> [root |-> "", items |-> <<>>]]

NoSuchSet == "The set with the given name does not exist"

\* The <ipset> element printed for set name: -t leaves the members out,
\* -n prints the name alone.
XmlOfSet(k, name, terse, nameOnly) ==
    IF nameOnly THEN [name |-> name]
    ELSE [name |-> name,
          type |-> k[name].type,
          revision |-> k[name].revision,
          family |-> k[name].family,
          hashsize |-> FormatInt(k[name].hashsize),
          maxelem |-> FormatInt(k[name].maxelem),
          memsize |-> FormatInt(Cardinality(k[name].members)),
          references |-> FormatInt(k[name].references),
          numentries |-> FormatInt(Cardinality(k[name].members)),
          members |-> IF terse THEN <<>>
                      ELSE SelectSeq(ElemSeq, LAMBDA e : e \in k[name].members)]

\* The names of the existing sets, in listing order.
NameSeq == <<Target, Target \o "-swptemp", Other, Spare>>

\* The sets a "list" names: the one given, or every existing set.
ListedNames(k, pos) ==
    IF Len(pos) >= 2 THEN <<pos[2]>>
    ELSE SelectSeq(NameSeq, LAMBDA n : n \in DOMAIN k)

ListingOf(k, names, terse, nameOnly) ==
    IF \E i \in 1..Len(names) : names[i] \notin DOMAIN k
    THEN Fail(k, NoSuchSet)
    ELSE [k |-> k, ok |-> TRUE, stderr |-> "",
          stdout |-> [root |-> "ipsets",
                      items |-> [i \in 1..Len(names) |->
                                    XmlOfSet(k, names[i], terse, nameOnly)]]]

IpsetList(k, args) ==
    ListingOf(k, ListedNames(k, WithoutFlags(args)), HasFlag(args, "-t"), HasFlag(args, "-n"))

\* The effect of one run of the ipset binary on the set table k.
Created(k, name, made) ==
    IF made = <<>> THEN Fail(k, "Syntax error") ELSE Ok(k @@ (name :> made[1]))

\* One subcommand cmd with positional arguments a and b (pos holds every
\* positional argument, args the whole argument list).
IpsetCmd(k, args, pos, cmd, a, b, exist) ==
        CASE cmd = "create" ->
               IF a \in DOMAIN k
               THEN IF exist THEN Ok(k)
                    ELSE Fail(k, "Set cannot be created: set with the same name already exists")
               ELSE Created(k, a, ApplyOpts(NewSet(b), SubSeq(pos, 4, Len(pos))))
          [] cmd = "add" ->
               IF a \notin DOMAIN k THEN Fail(k, NoSuchSet)
               ELSE IF b \in k[a].members
               THEN IF exist THEN Ok(k)
                    ELSE Fail(k, "Element cannot be added to the set: it's already added")
               ELSE Ok([k EXCEPT ![a].members = @ \cup {b}])
          [] cmd = "del" ->
               IF a \notin DOMAIN k THEN Fail(k, NoSuchSet)
               ELSE IF b \notin k[a].members
               THEN IF exist THEN Ok(k)
                    ELSE Fail(k, "Element cannot be deleted from the set: it's not added")
               ELSE Ok([k EXCEPT ![a].members = @ \ {b}])
          [] cmd = "test" ->
               IF a \notin DOMAIN k THEN Fail(k, NoSuchSet)
               ELSE IF b \in k[a].members THEN Ok(k)
               ELSE Fail(k, "is NOT in set")
          [] cmd = "destroy" ->
               IF a = "" THEN Ok([n \in {} |-> NewSet("")])
               ELSE IF a \notin DOMAIN k THEN Fail(k, NoSuchSet)
               ELSE Ok([n \in DOMAIN k \ {a} |-> k[n]])
          [] cmd = "flush" ->
               IF a \notin DOMAIN k THEN Fail(k, NoSuchSet)
               ELSE Ok([k EXCEPT ![a].members = {}])
          [] cmd = "rename" ->
               IF a \notin DOMAIN k THEN Fail(k, NoSuchSet)
               ELSE IF b \in DOMAIN k
               THEN Fail(k, "Set cannot be renamed: a set with the new name already exists")
               ELSE Ok([n \in (DOMAIN k \ {a}) \cup {b} |-> IF n = b THEN k[a] ELSE k[n]])
          [] cmd = "swap" ->
               IF a \notin DOMAIN k \/ b \notin DOMAIN k THEN Fail(k, NoSuchSet)
               ELSE IF k[a].type # k[b].type
               THEN Fail(k, "The sets cannot be swapped: their type does not match")
               ELSE Ok([k EXCEPT ![a] = [k[b] EXCEPT !.references = k[a].references],
                                 ![b] = [k[a] EXCEPT !.references = k[b].references]])
          [] cmd = "list" -> IpsetList(k, args)
          [] OTHER -> Fail(k, "Unknown command")

Arg(pos, i) == IF i <= Len(pos) THEN pos[i] ELSE ""

Ipset(k, args) ==
    IpsetCmd(k, args, WithoutFlags(args), args[1], Arg(WithoutFlags(args), 2),
             Arg(WithoutFlags(args), 3), HasFlag(args, "-exist"))

(***************************************************************************)
(* The wrapper: process invocation.                                        *)
(***************************************************************************)

\* IPSet.Path, as exec.LookPath resolved it.
Path == "/usr/sbin/ipset"

EmptyDoc == [root |-> "", items |-> <<>>]

\* What the environment does to one process run: the binary runs against
\* the set table; or the run fails for a reason outside the set table; or
\* the binary exits zero having printed the listing document out[1].
Runs == [exit |-> "run", out |-> <<>>]

Faulty == [exit |-> "fail", out |-> <<>>]

Printing(doc) == [exit |-> "run", out |-> <<doc>>]

FaultText == "Kernel error received: Operation not permitted"

\* cmd.Run() of argv, where r is what the binary does when it runs.
cmdRun(k, argv, env, r) ==
    IF env.exit = "fail"
    THEN [k |-> k, err |-> ErrorsNew(FaultText), stdout |-> EmptyDoc, argv |-> argv]
    ELSE IF env.out # <<>>
    THEN [k |-> k, err |-> Nil, stdout |-> env.out[1], argv |-> argv]
    ELSE IF ~r.ok
    THEN [k |-> r.k, err |-> ErrorsNew(r.stderr), stdout |-> r.stdout, argv |-> argv]
    ELSE [k |-> r.k, err |-> Nil, stdout |-> r.stdout, argv |-> argv]

runWithOutput(k, args, env) == cmdRun(k, <<Path>> \o args, env, Ipset(k, args))

run(k, args, env) == runWithOutput(k, args, env)

(***************************************************************************)
(* The wrapper: one operation per subcommand.                              *)
(***************************************************************************)

\* Create with -exist: succeeds when the set is already there.
CreateIfAbsent(k, name, typ, options, env) ==
    run(k, <<"create", name, typ, "-exist">> \o options, env)

Create(k, name, typ, options, env) == run(k, <<"create", name, typ>> \o options, env)

Add(k, name, entry, options, env) == run(k, <<"add", name, entry>> \o options, env)

\* AddUnique without -exist.
AddUniqueStrict(k, name, entry, options, env) ==
    run(k, <<"add", name, entry>> \o options, env)

AddUnique(k, name, entry, options, env) ==
    run(k, <<"add", name, entry, "-exist">> \o options, env)

Delete(k, name, entry, options, env) == run(k, <<"del", name, entry>> \o options, env)

Test(k, name, entry, options, env) == run(k, <<"test", name, entry>> \o options, env)

\* Destroy without the name: every set goes.
DestroyUnnamed(k, name, env) == run(k, <<"destroy">>, env)

Destroy(k, name, env) == run(k, <<"destroy", name>>, env)

Flush(k, name, env) == run(k, <<"flush", name>>, env)

Rename(k, from, to, env) == run(k, <<"rename", from, to>>, env)

Swap(k, from, to, env) == run(k, <<"swap", from, to>>, env)

(***************************************************************************)
(* The wrapper: listings and their XML decoding.                           *)
(***************************************************************************)

Field(item, f, zero) == IF f \in DOMAIN item THEN item[f] ELSE zero

NumField(item, f) == IF f \in DOMAIN item THEN ParseInt(item[f]) ELSE 0

\* An <ipset> element decodes when it is well-formed XML and its numeric
\* fields are decimal numbers.
Decodes(item) ==
    /\ "malformed" \notin DOMAIN item
    /\ \A f \in {"hashsize", "maxelem", "memsize", "references", "numentries"} :
          NumField(item, f) >= 0

DecodeMembers(ms) == [i \in 1..Len(ms) |-> [Elem |-> ms[i]]]

\* The Set struct an <ipset> element decodes to.
DecodeSet(item) ==
    [Name |-> Field(item, "name", ""),
     Type |-> Field(item, "type", ""),
     Revision |-> Field(item, "revision", ""),
     Header |-> [Family |-> Field(item, "family", ""),
                 HashSize |-> NumField(item, "hashsize"),
                 Maxelem |-> NumField(item, "maxelem"),
                 MemSize |-> NumField(item, "memsize"),
                 References |-> NumField(item, "references"),
                 Numentries |-> NumField(item, "numentries")],
     Members |-> DecodeMembers(Field(item, "members", <<>>))]

\* The decoder fills the Sets slice element by element and stops at the
\* first element it cannot decode, leaving what it has filled so far.
RECURSIVE DecodeItems(_, _)
DecodeItems(items, acc) ==
    IF items = <<>> THEN [sets |-> acc, err |-> Nil]
    ELSE IF ~Decodes(Head(items))
    THEN [sets |-> acc, err |-> ErrorsNew("XML syntax error")]
    ELSE DecodeItems(Tail(items), Append(acc, DecodeSet(Head(items))))

Unmarshal(doc) ==
    IF doc.root = "" THEN [sets |-> <<>>, err |-> ErrorsNew("EOF")]
    ELSE IF doc.root # "ipsets"
    THEN [sets |-> <<>>,
          err |-> ErrorsNew("expected element type <ipsets> but have <" \o doc.root \o ">")]
    ELSE DecodeItems(doc.items, <<>>)

\* listXML handing back what was decoded before the decoder failed.
listXMLPartial(r, u) ==
    IF r.err # Nil THEN [sets |-> <<>>, err |-> r.err, argv |-> r.argv]
    ELSE [sets |-> u.sets, err |-> u.err, argv |-> r.argv]

\* listXML after the process ran: r is the run, u the decoding of its output.
listXMLDecoded(r, u) ==
    IF r.err # Nil THEN [sets |-> <<>>, err |-> r.err, argv |-> r.argv]
    ELSE IF u.err # Nil THEN [sets |-> <<>>, err |-> u.err, argv |-> r.argv]
    ELSE [sets |-> u.sets, err |-> Nil, argv |-> r.argv]

listXMLRun(r) == listXMLDecoded(r, Unmarshal(r.stdout))

listXMLArgs(suppressMembers, args) ==
    IF suppressMembers THEN (<<"list", "-o", "xml">> \o args) \o <<"-t">>
    ELSE <<"list", "-o", "xml">> \o args

listXML(k, suppressMembers, args, env) ==
    listXMLRun(runWithOutput(k, listXMLArgs(suppressMembers, args), env))

AmbiguousText == "list named set return results not equal one"

\* List taking the first record of any non-empty listing.
ListOfFirst(r) ==
    IF r.err # Nil THEN [val |-> NilPtr, err |-> r.err, argv |-> r.argv]
    ELSE IF Len(r.sets) < 1
    THEN [val |-> NilPtr, err |-> ErrorsNew(AmbiguousText), argv |-> r.argv]
    ELSE [val |-> PtrTo(r.sets[1]), err |-> Nil, argv |-> r.argv]

\* List after listXML returned r.
ListOf(r) ==
    IF r.err # Nil THEN [val |-> NilPtr, err |-> r.err, argv |-> r.argv]
    ELSE IF Len(r.sets) # 1
    THEN [val |-> NilPtr, err |-> ErrorsNew(AmbiguousText), argv |-> r.argv]
    ELSE [val |-> PtrTo(r.sets[1]), err |-> Nil, argv |-> r.argv]

List(k, name, suppressMembers, env) == ListOf(listXML(k, suppressMembers, <<name>>, env))

\* ListEntries after List returned r.
ListEntriesOf(r) ==
    IF r.err # Nil THEN [val |-> <<>>, err |-> r.err]
    ELSE [val |-> [i \in 1..Len(r.val[1].Members) |-> r.val[1].Members[i].Elem],
          err |-> Nil]

ListEntries(k, name, env) == ListEntriesOf(List(k, name, FALSE, env))

ListSetsOf(r) == [val |-> r.sets, err |-> r.err]

ListSets(k, suppressMembers, env) == ListSetsOf(listXML(k, suppressMembers, <<>>, env))

\* ListSetNames after listXML returned r.
ListSetNamesOf(r) ==
    IF r.err # Nil THEN [val |-> <<>>, err |-> r.err]
    ELSE [val |-> [i \in 1..Len(r.sets) |-> r.sets[i].Name], err |-> Nil]

ListSetNames(k, env) == ListSetNamesOf(listXML(k, FALSE, <<"-n">>, env))

\* GetReferences after List returned r.
GetReferencesOf(r) ==
    IF r.err # Nil THEN [val |-> 0, err |-> r.err]
    ELSE [val |-> r.val[1].Header.References, err |-> Nil]

GetReferences(k, name, env) == GetReferencesOf(List(k, name, TRUE, env))

(***************************************************************************)
(* State.                                                                  *)
(***************************************************************************)

VARIABLES
    kernel,    \* the kernel's set table: existing set name -> record
    pc,        \* per caller: the Refresh step it is about to run
    entries,   \* per caller: the entries its Refresh was called with
    idx,       \* per caller: position of the range loop over entries
    s,         \* per caller: the record List returned (NilPtr before)
    ret,       \* per caller: the error Refresh returned (Nil for none)
    opFail,    \* per caller: the step that failed and the error it returned
    issued,    \* per caller: the argument vectors it has run, in order
    atCall,    \* per caller: the set table when Refresh was called
    atReturn,  \* per caller: the set table when Refresh returned
    late,      \* per caller: called after a Refresh had left its temporary set
    start,     \* the set table before any call
    last       \* single operations: the latest operation and its result

refreshVars == <<pc, entries, idx, s, ret, opFail, issued, atCall, atReturn, late, start>>

vars == <<kernel, pc, entries, idx, s, ret, opFail, issued, atCall, atReturn, late, start, last>>

NoFail == [step |-> "", err |-> Nil]

NoOp ==
    [op |-> "", name |-> "", entry |-> "", again |-> FALSE, val |-> <<>>,
     err |-> Nil, run |-> <<>>]

\* Set tables a call can start from: the bystander set, and the target
\* absent or present with any members.
TargetSet(ms) ==
    [type |-> "hash:ip", revision |-> "4", family |-> "inet", hashsize |-> 4,
     maxelem |-> 8, references |-> 1, members |-> ms]

OtherSet ==
    [type |-> "hash:net", revision |-> "6", family |-> "inet", hashsize |-> 2,
     maxelem |-> 8, references |-> 0, members |-> {ElemSeq[2]}]

InitKernels ==
    {(Other :> OtherSet)} \cup
    {(Other :> OtherSet) @@ (Target :> TargetSet(ms)) : ms \in SUBSET Elems}

\* No caller has called Refresh and no operation has run.
Fresh ==
    /\ pc = [p \in Procs |-> "idle"]
    /\ entries = [p \in Procs |-> <<>>]
    /\ idx = [p \in Procs |-> 0]
    /\ s = [p \in Procs |-> NilPtr]
    /\ ret = [p \in Procs |-> Nil]
    /\ opFail = [p \in Procs |-> NoFail]
    /\ issued = [p \in Procs |-> <<>>]
    /\ atCall = [p \in Procs |-> <<>>]
    /\ atReturn = [p \in Procs |-> <<>>]
    /\ late = [p \in Procs |-> FALSE]
    /\ last = NoOp

Init ==
    /\ kernel \in InitKernels
    /\ start = kernel
    /\ Fresh

\* The single operations keep no record of the first set table.
InitOps ==
    /\ kernel \in InitKernels
    /\ start = <<>>
    /\ Fresh

(***************************************************************************)
(* Refresh, one action per process run.                                    *)
(***************************************************************************)

tempname(name) == name \o "-swptemp"

Envs == {Runs, Faulty}

\* The entries callers hand to Refresh.
EntryChoices == {ElemSeq[1], ElemSeq[2]}

\* A Refresh that returned an error after its Create had succeeded.
LeftBehind(q) == pc[q] = "done" /\ opFail[q].step \in {"add", "swap", "destroy"}

\* Refresh returns err: the step `step` failed with operation error operr,
\* or (step = "") every step succeeded.
Return(p, k, err, step, operr, argv) ==
    /\ kernel' = k
    /\ pc' = [pc EXCEPT ![p] = "done"]
    /\ ret' = [ret EXCEPT ![p] = err]
    /\ opFail' = [opFail EXCEPT ![p] = [step |-> step, err |-> operr]]
    /\ issued' = [issued EXCEPT ![p] = Append(@, argv)]
    /\ atReturn' = [atReturn EXCEPT ![p] = k]

\* Refresh goes on to the step `next`.
Goto(p, k, next, argv) ==
    /\ kernel' = k
    /\ pc' = [pc EXCEPT ![p] = next]
    /\ issued' = [issued EXCEPT ![p] = Append(@, argv)]
    /\ UNCHANGED <<ret, opFail, atReturn>>

\* The range loop stopping one entry short.
AfterLoopStepShort(p, i) == IF i + 1 < Len(entries[p]) THEN "add" ELSE "swap"

\* The statement after a successful Create or AddUnique: the next entry of
\* the range loop, or Swap when the loop is over.
AfterLoopStep(p, i) == IF i < Len(entries[p]) THEN "add" ELSE "swap"

CallRefresh(p) ==
    /\ pc[p] = "idle"
    /\ \E es \in SeqsUpTo(EntryChoices, MaxEntries) :
          entries' = [entries EXCEPT ![p] = es]
    /\ pc' = [pc EXCEPT ![p] = "list"]
    /\ atCall' = [atCall EXCEPT ![p] = kernel]
    /\ late' = [late EXCEPT ![p] = \E q \in Procs : LeftBehind(q)]
    /\ UNCHANGED <<kernel, idx, s, ret, opFail, issued, atReturn, start, last>>

\* The statements after List returned r.
AfterList(p, r) ==
    IF r.err # Nil
    THEN Return(p, kernel, r.err, "list", r.err, r.argv) /\ UNCHANGED s
    ELSE Goto(p, kernel, "create", r.argv) /\ s' = [s EXCEPT ![p] = r.val]

RefreshList(p) ==
    /\ pc[p] = "list"
    /\ \E env \in Envs : AfterList(p, List(kernel, Target, TRUE, env))
    /\ UNCHANGED <<entries, idx, atCall, late, start, last>>

\* The Create error handed back as it is.
CreateUnwrapped(err) == err

CreateWrapped(err) ==
    ErrorsNew("cannot create the temp set for swap: " \o ErrorText(err))

\* The sizing options Refresh copies from the target's header.
RefreshOpts(set) ==
    <<"family", set.Header.Family,
      "hashsize", FormatInt(set.Header.HashSize),
      "maxelem", FormatInt(set.Header.Maxelem)>>

\* Refresh swapping before it has populated the temporary set.
AfterCreateSwapFirst(p, r) ==
    IF r.err # Nil
    THEN Return(p, r.k, CreateWrapped(r.err), "create", r.err, r.argv)
    ELSE Goto(p, r.k, "swap", r.argv)

\* The statements after Create returned r.
AfterCreate(p, r) ==
    IF r.err # Nil
    THEN Return(p, r.k, CreateWrapped(r.err), "create", r.err, r.argv)
    ELSE Goto(p, r.k, AfterLoopStep(p, 0), r.argv)

RefreshCreate(p) ==
    /\ pc[p] = "create"
    /\ \E env \in Envs :
          AfterCreate(p, Create(kernel, tempname(Target), s[p][1].Type,
                                RefreshOpts(s[p][1]), env))
    /\ UNCHANGED <<entries, idx, s, atCall, late, start, last>>

\* Refresh destroying the temporary set when an AddUnique fails.
AfterAddRollback(p, r) ==
    IF r.err # Nil
    THEN Return(p, Ipset(r.k, <<"destroy", tempname(Target)>>).k, r.err, "add", r.err, r.argv)
         /\ UNCHANGED idx
    ELSE /\ Goto(p, r.k, AfterLoopStep(p, idx[p] + 1), r.argv)
         /\ idx' = [idx EXCEPT ![p] = @ + 1]

\* The statements after AddUnique returned r.
AfterAdd(p, r) ==
    IF r.err # Nil
    THEN Return(p, r.k, r.err, "add", r.err, r.argv) /\ UNCHANGED idx
    ELSE /\ Goto(p, r.k, AfterLoopStep(p, idx[p] + 1), r.argv)
         /\ idx' = [idx EXCEPT ![p] = @ + 1]

RefreshAdd(p) ==
    /\ pc[p] = "add"
    /\ \E env \in Envs :
          AfterAdd(p, AddUnique(kernel, tempname(Target), entries[p][idx[p] + 1], <<>>, env))
    /\ UNCHANGED <<entries, s, atCall, late, start, last>>

\* The statements after Swap returned r.
AfterSwap(p, r) ==
    IF r.err # Nil
    THEN Return(p, r.k, r.err, "swap", r.err, r.argv)
    ELSE Goto(p, r.k, "destroy", r.argv)

RefreshSwap(p) ==
    /\ pc[p] = "swap"
    /\ \E env \in Envs : AfterSwap(p, Swap(kernel, tempname(Target), Target, env))
    /\ UNCHANGED <<entries, idx, s, atCall, late, start, last>>

\* The statements after Destroy returned r.
AfterDestroy(p, r) ==
    IF r.err # Nil
    THEN Return(p, r.k, r.err, "destroy", r.err, r.argv)
    ELSE Return(p, r.k, Nil, "", Nil, r.argv)

RefreshDestroy(p) ==
    /\ pc[p] = "destroy"
    /\ \E env \in Envs : AfterDestroy(p, Destroy(kernel, tempname(Target), env))
    /\ UNCHANGED <<entries, idx, s, atCall, late, start, last>>

Next ==
    \E p \in Procs :
        \/ CallRefresh(p)
        \/ RefreshList(p)
        \/ RefreshCreate(p)
        \/ RefreshAdd(p)
        \/ RefreshSwap(p)
        \/ RefreshDestroy(p)

Spec == Init /\ [][Next]_vars

(***************************************************************************)
(* Single mutating operations, each one process run of a working binary.   *)
(***************************************************************************)

OpNames == {Target, Other}

Types == {"hash:ip", "hash:net"}

CreateOptions == {<<>>, <<"maxelem", "8">>, <<"maxelem">>}

\* Operation op on (name, entry) returned r; again says that it repeats the
\* operation before it.
Did(op, name, entry, r) ==
    /\ kernel' = r.k
    /\ last' = [op |-> op, name |-> name, entry |-> entry,
                again |-> (last.op = op /\ last.name = name /\ last.entry = entry),
                val |-> <<>>, err |-> r.err, run |-> <<>>]
    /\ UNCHANGED refreshVars

OpCreate ==
    \E name \in OpNames, typ \in Types, options \in CreateOptions :
        Did("Create", name, typ, Create(kernel, name, typ, options, Runs))

OpAdd ==
    \E name \in OpNames, entry \in Elems :
        Did("Add", name, entry, Add(kernel, name, entry, <<>>, Runs))

OpAddUnique ==
    \E name \in OpNames, entry \in Elems :
        Did("AddUnique", name, entry, AddUnique(kernel, name, entry, <<>>, Runs))

OpDelete ==
    \E name \in OpNames, entry \in Elems :
        Did("Delete", name, entry, Delete(kernel, name, entry, <<>>, Runs))

OpTest ==
    \E name \in OpNames, entry \in Elems :
        Did("Test", name, entry, Test(kernel, name, entry, <<>>, Runs))

OpDestroy ==
    \E name \in OpNames \cup {""} :
        Did("Destroy", name, "", Destroy(kernel, name, Runs))

OpFlush ==
    \E name \in OpNames : Did("Flush", name, "", Flush(kernel, name, Runs))

OpRename ==
    \E from \in OpNames, to \in OpNames :
        Did("Rename", from, to, Rename(kernel, from, to, Runs))

OpSwap ==
    \E from \in OpNames, to \in OpNames :
        Did("Swap", from, to, Swap(kernel, from, to, Runs))

NextOps ==
    \/ OpCreate
    \/ OpAdd
    \/ OpAddUnique
    \/ OpDelete
    \/ OpTest
    \/ OpDestroy
    \/ OpFlush
    \/ OpRename
    \/ OpSwap

SpecOps == InitOps /\ [][NextOps]_vars

(***************************************************************************)
(* Single listing operations.  The process may fail, and a binary that     *)
(* exits zero may have printed any document.                               *)
(***************************************************************************)

TargetItem ==
    [name |-> Target, type |-> "hash:ip", revision |-> "4", family |-> "inet",
     hashsize |-> "4", maxelem |-> "8", memsize |-> "1", references |-> "1",
     numentries |-> "1", members |-> <<ElemSeq[1]>>]

MalformedItem == [malformed |-> TRUE]

BadNumberItem == [name |-> Target, hashsize |-> "many"]

ItemChoices == {TargetItem, MalformedItem, BadNumberItem}

Docs ==
    {[root |-> "html", items |-> <<>>]} \cup
    {[root |-> "ipsets", items |-> items] : items \in SeqsUpTo(ItemChoices, MaxItems)}

\* The names listings are asked for: Spare is the name of no set.
ListNames == {Target, Other, Spare}

ListEnvs == Envs \cup {Printing(doc) : doc \in Docs}

\* Listing operation op on name returned r; proc is the process run under it.
Listed(op, name, r, proc) ==
    /\ last' = [op |-> op, name |-> name, entry |-> "", again |-> FALSE, val |-> r.val,
                err |-> r.err, run |-> <<[err |-> proc.err, stdout |-> proc.stdout]>>]
    /\ UNCHANGED kernel
    /\ UNCHANGED refreshVars

OpList ==
    \E name \in ListNames, suppressMembers \in BOOLEAN, env \in ListEnvs :
        Listed("List", name, List(kernel, name, suppressMembers, env),
               runWithOutput(kernel, listXMLArgs(suppressMembers, <<name>>), env))

OpListEntries ==
    \E name \in ListNames, env \in ListEnvs :
        Listed("ListEntries", name, ListEntries(kernel, name, env),
               runWithOutput(kernel, listXMLArgs(FALSE, <<name>>), env))

OpListSets ==
    \E suppressMembers \in BOOLEAN, env \in ListEnvs :
        Listed("ListSets", "", ListSets(kernel, suppressMembers, env),
               runWithOutput(kernel, listXMLArgs(suppressMembers, <<>>), env))

OpListSetNames ==
    \E env \in ListEnvs :
        Listed("ListSetNames", "", ListSetNames(kernel, env),
               runWithOutput(kernel, listXMLArgs(FALSE, <<"-n">>), env))

OpGetReferences ==
    \E name \in ListNames, env \in ListEnvs :
        Listed("GetReferences", name, GetReferences(kernel, name, env),
               runWithOutput(kernel, listXMLArgs(TRUE, <<name>>), env))

NextList ==
    \/ OpList
    \/ OpListEntries
    \/ OpListSets
    \/ OpListSetNames
    \/ OpGetReferences

SpecList == InitOps /\ [][NextList]_vars

(***************************************************************************)
(* Properties of Refresh, checked under Spec.                              *)
(***************************************************************************)

Temp == tempname(Target)

Called(p) == pc[p] # "idle"

Returned(p) == pc[p] = "done"

\* Refresh of caller p returned the error of a failed step.
Failed(p) == Returned(p) /\ opFail[p].step # ""

\* p is the only caller so far.
SoleCaller(p) == Called(p) /\ \A q \in Procs \ {p} : ~Called(q)

\* The subcommand of an argument vector (the binary's path comes first).
Subcommand(argv) == argv[2]

StepRank(step) ==
    CASE step = "list" -> 1
      [] step = "create" -> 2
      [] step = "add" -> 3
      [] step = "swap" -> 4
      [] step = "destroy" -> 5
      [] OTHER -> 6

Issues(p, cmds) == \E i \in 1..Len(issued[p]) : Subcommand(issued[p][i]) \in cmds

AlreadyExists == "Set cannot be created: set with the same name already exists"

WrapPrefix == "cannot create the temp set for swap: "

\* C1: when every step of Refresh(name, entries...) on an existing set
\* succeeds, then as Refresh returns the members of name are exactly the set
\* of the given entries and name-swptemp does not exist, whatever the prior
\* contents and with duplicates or no entries at all in the list.
C1_RefreshReplacesContents ==
    \A p \in Procs :
        (Returned(p) /\ ret[p] = Nil /\ opFail[p].step = "") =>
            /\ Target \in DOMAIN atReturn[p]
            /\ atReturn[p][Target].members = Range(entries[p])
            /\ Temp \notin DOMAIN atReturn[p]

\* A successful Refresh with a duplicated entry over different prior contents.
C1_Witness ==
    \E p \in Procs :
        /\ Returned(p) /\ ret[p] = Nil
        /\ Len(entries[p]) = 2 /\ entries[p][1] = entries[p][2]
        /\ atCall[p][Target].members \notin {{}, Range(entries[p])}

\* C2: while a single Refresh runs (and after it returned, failed or not),
\* the members of the target are exactly those before the call or exactly
\* the set of the given entries.
C2_SingleRefreshOldOrNew ==
    \A p \in Procs :
        (SoleCaller(p) /\ Target \in DOMAIN atCall[p]) =>
            /\ Target \in DOMAIN kernel
            /\ kernel[Target].members \in
                   {atCall[p][Target].members, Range(entries[p])}

\* The single Refresh has swapped in new, non-empty contents over different
\* non-empty old ones and has not destroyed the temporary set yet.
C2_Witness ==
    \E p \in Procs :
        /\ SoleCaller(p) /\ pc[p] = "destroy"
        /\ Len(entries[p]) = 2 /\ entries[p][1] # entries[p][2]
        /\ atCall[p][Target].members # {}
        /\ kernel[Target].members = Range(entries[p])
        /\ kernel[Target].members # atCall[p][Target].members

\* C3 as stated: whichever step fails, Refresh returns the very error the
\* failing operation returned.
C3_ReturnsOperationError ==
    \A p \in Procs : Failed(p) => ret[p] = opFail[p].err

\* C3 as amended: a failing step is the last one Refresh runs; Refresh
\* returns the failing operation's error for List, AddUnique, Swap and
\* Destroy, and for Create a new error whose text is "cannot create the temp
\* set for swap: " followed by the operation's error text.
C3_ReturnsStepError ==
    \A p \in Procs :
        Failed(p) =>
            /\ opFail[p].err # Nil
            /\ ret[p] = IF opFail[p].step = "create"
                        THEN ErrorsNew(WrapPrefix \o opFail[p].err[1])
                        ELSE opFail[p].err
            /\ issued[p] # <<>>
            /\ StepRank(Subcommand(issued[p][Len(issued[p])])) = StepRank(opFail[p].step)
            /\ \A i \in 1..Len(issued[p]) :
                  StepRank(Subcommand(issued[p][i])) <= StepRank(opFail[p].step)

\* One Refresh failed at Create and another at a later step.
C3_Witness ==
    \E p \in Procs, q \in Procs :
        /\ Failed(p) /\ opFail[p].step = "create"
        /\ Failed(q) /\ opFail[q].step \in {"add", "swap", "destroy"}

\* C4: when Create succeeded and a later AddUnique or Swap fails, then as
\* Refresh returns its error name-swptemp exists, holds the entries added so
\* far, and Refresh has run no destroy.
C4_NoRollback ==
    \A p \in Procs :
        (Failed(p) /\ opFail[p].step \in {"add", "swap"}) =>
            /\ Temp \in DOMAIN atReturn[p]
            /\ atReturn[p][Temp].members = Range(SubSeq(entries[p], 1, idx[p]))
            /\ ~Issues(p, {"destroy"})

\* An AddUnique failed after an earlier one had succeeded.
C4_Witness ==
    \E p \in Procs :
        /\ Failed(p) /\ opFail[p].step = "add" /\ idx[p] = 1
        /\ atReturn[p][Temp].members # {}

\* C8: under any interleaving of concurrent Refresh calls on one target, the
\* target's members are always its initial members or the entry set of one
\* call; and a Refresh whose Create finds the temporary set present fails
\* without running any add, swap or destroy.
C8_NoMixture ==
    /\ Target \in DOMAIN start =>
          /\ Target \in DOMAIN kernel
          /\ kernel[Target].members \in
                 {start[Target].members} \cup {Range(entries[p]) : p \in {q \in Procs : Called(q)}}
    /\ \A p \in Procs :
          (Failed(p) /\ opFail[p].step = "create" /\ opFail[p].err = ErrorsNew(AlreadyExists)) =>
              ~Issues(p, {"add", "swap", "destroy"})

\* Two calls with different entry sets raced: one found the other's
\* temporary set and failed, the other is past its Create.
C8_Witness ==
    \E p \in Procs, q \in Procs :
        /\ Range(entries[p]) # Range(entries[q])
        /\ entries[p] # <<>> /\ entries[q] # <<>>
        /\ Failed(p) /\ opFail[p].err = ErrorsNew(AlreadyExists)
        /\ pc[q] \in {"add", "swap", "destroy"}

\* C9 as stated: a Refresh called after another had left name-swptemp behind
\* fails at its Create step with the "cannot create the temp set for swap"
\* error and changes neither set.
C9_LaterRefreshFailsAtCreate ==
    \A p \in Procs :
        (late[p] /\ Returned(p)) =>
            /\ opFail[p].step = "create"
            /\ ret[p] = ErrorsNew(WrapPrefix \o opFail[p].err[1])
            /\ atReturn[p] = atCall[p]

\* C9 as amended: a Refresh called after another had left name-swptemp behind
\* never gets past its Create step: it fails at its List step with List's
\* error, or at its Create step with the "cannot create the temp set for
\* swap" error, and it changes neither set.
C9_LaterRefreshBlocked ==
    \A p \in Procs :
        late[p] =>
            /\ pc[p] \in {"list", "create", "done"}
            /\ kernel = atCall[p]
            /\ Temp \in DOMAIN kernel
            /\ Returned(p) =>
                  /\ opFail[p].step \in {"list", "create"}
                  /\ ret[p] # Nil
                  /\ opFail[p].step = "list" => ret[p] = opFail[p].err
                  /\ opFail[p].step = "create" =>
                        ret[p] = ErrorsNew(WrapPrefix \o opFail[p].err[1])
                  /\ atReturn[p] = atCall[p]

\* A later Refresh found the leftover set and failed at its Create.
C9_Witness ==
    \E p \in Procs :
        /\ late[p] /\ Failed(p) /\ opFail[p].step = "create"
        /\ opFail[p].err = ErrorsNew(AlreadyExists)

SetsBeside(k) == DOMAIN k \ {Target, Temp}

\* C10: a step of Refresh changes the target only when it is a successful
\* Swap, and never changes a set other than the target and name-swptemp; and
\* when a lone Refresh returns an error of its List, Create, AddUnique or Swap
\* step the target is as it was before the call.
C10_OnlySwapChangesTarget ==
    /\ [][/\ SetsBeside(kernel') = SetsBeside(kernel)
          /\ \A n \in SetsBeside(kernel) : kernel'[n] = kernel[n]
          /\ (Target \in DOMAIN kernel) = (Target \in DOMAIN kernel')
          /\ (Target \in DOMAIN kernel /\ kernel'[Target] # kernel[Target]) =>
                \E p \in Procs : pc[p] = "swap" /\ pc'[p] = "destroy"]_vars
    /\ [](\A p \in Procs :
            (SoleCaller(p) /\ Failed(p) /\ opFail[p].step # "destroy") =>
                /\ (Target \in DOMAIN atCall[p]) = (Target \in DOMAIN atReturn[p])
                /\ Target \in DOMAIN atCall[p] => atReturn[p][Target] = atCall[p][Target])

\* A lone Refresh failed at its Swap step with the target's contents differing
\* from the entries it was given.
C10_Witness ==
    \E p \in Procs :
        /\ SoleCaller(p) /\ Failed(p) /\ opFail[p].step = "swap"
        /\ entries[p] # <<>>
        /\ kernel[Target].members # Range(entries[p])
        /\ kernel[Other] = start[Other]

(***************************************************************************)
(* Properties of the listing operations, checked under SpecList.           *)
(***************************************************************************)

ListingOps == {"List", "ListEntries", "ListSets", "ListSetNames", "GetReferences"}

\* The process of the latest listing operation succeeded and its output
\* decoded to n records.
DecodedRecords(proc, n) ==
    /\ proc.err = Nil
    /\ Unmarshal(proc.stdout).err = Nil
    /\ Len(Unmarshal(proc.stdout).sets) = n

DecodedSome(proc) ==
    /\ proc.err = Nil
    /\ Unmarshal(proc.stdout).err = Nil

\* C5: List returns a record exactly when the process succeeded, its output
\* decoded and the decoded listing holds one record, and then it is that
\* record; a decoded listing of zero or several records makes List fail with
\* the ambiguous-result error and no record.
C5_ListExactlyOne ==
    last.op = "List" =>
        /\ (last.val # NilPtr) <=> DecodedRecords(last.run[1], 1)
        /\ DecodedRecords(last.run[1], 1) =>
              /\ last.val = PtrTo(Unmarshal(last.run[1].stdout).sets[1])
              /\ last.err = Nil
        /\ (DecodedSome(last.run[1]) /\ ~DecodedRecords(last.run[1], 1)) =>
              /\ last.err = ErrorsNew(AmbiguousText)
              /\ last.val = NilPtr

\* List was answered with a well-formed listing of two records.
C5_Witness ==
    /\ last.op = "List"
    /\ DecodedRecords(last.run[1], 2)
    /\ last.err = ErrorsNew(AmbiguousText)

\* C6: a listing operation that returns an error returns the empty value
\* with it (no record, no sequence, 0), whichever step failed.
C6_NoPartialValue ==
    (last.op \in ListingOps /\ last.err # Nil) =>
        CASE last.op = "List" -> last.val = NilPtr
          [] last.op = "GetReferences" -> last.val = 0
          [] OTHER -> last.val = <<>>

\* ListSets failed in the decoder after the decoder had filled in a record.
C6_Witness ==
    /\ last.op = "ListSets"
    /\ last.err # Nil
    /\ last.run[1].err = Nil
    /\ Unmarshal(last.run[1].stdout).err # Nil
    /\ Unmarshal(last.run[1].stdout).sets # <<>>

(***************************************************************************)
(* Properties of the mutating operations, checked under SpecOps.           *)
(***************************************************************************)

Occurrences(seq, x) == Cardinality({i \in 1..Len(seq) : seq[i] = x})

\* C7: AddUnique on an existing set never fails; a second AddUnique of the
\* same entry right after the first does not fail either, leaves the set
\* table as the first left it, and the entry is listed once.  Add of an entry
\* that is present fails.
C7_AddUniqueIdempotent ==
    [][/\ (last'.op = "AddUnique" /\ last'.name \in DOMAIN kernel) =>
             /\ last'.err = Nil
             /\ Occurrences(ListEntries(kernel', last'.name, Runs).val, last'.entry) = 1
       /\ (last'.op = "AddUnique" /\ last'.again /\ last'.name \in DOMAIN kernel) =>
             /\ last.err = Nil
             /\ kernel' = kernel
       /\ (last'.op = "Add" /\ last'.name \in DOMAIN kernel
             /\ last'.entry \in kernel[last'.name].members) =>
             /\ last'.err # Nil
             /\ kernel' = kernel]_vars

\* AddUnique was called twice in a row on an existing set.
C7_Witness ==
    /\ last.op = "AddUnique"
    /\ last.again
    /\ last.name \in DOMAIN kernel
    /\ last.err = Nil

====
